---- MODULE Spec2Model ----
\* A model of main.mjs: a batch harness that audits every configured
\* (region, url, device), stores each report under results/<region>/<timestamp>/,
\* compares it with the report of the second-newest snapshot of the region and
\* writes one summary document at the end of the invocation.
EXTENDS Integers, Sequences, FiniteSets, TLC

\* ------------------------------------------------------------------ bounds
\* Number of invocations of the program in one behaviour.
MaxRuns == 3
\* Number of reports saved over all invocations of one behaviour.
MaxAudits == 5

\* ------------------------------------------------------------ input domains
\* A score that JSON holds as null (the audit could not compute it). Scores are
\* kept in hundredths, the resolution the audit engine rounds them to, so that
\* score * 100 is the integer itself.
NullScore == -1

\* The reports the audit engine may return: ordered category lists, as the key
\* order of lhr.categories.
LhrFull == << [id |-> "performance", title |-> "Performance", score |-> 80],
              [id |-> "seo", title |-> "SEO", score |-> NullScore] >>
LhrPerf == << [id |-> "performance", title |-> "Performance", score |-> 85] >>
Lhrs == {LhrFull, LhrPerf}

\* URLs and arguments are sequences of tokens; a token is a piece of text that
\* the regular expressions of the program match as a whole or not at all.
UrlX == <<"https://", "x.com">>
UrlXPlain == <<"http://", "x.com">>
UrlXA == <<"https://", "x.com", "/", "a">>

\* urls.json: an ordered mapping from region to list of URLs.
ConfigTwo == << [key |-> "us", urls |-> <<UrlXA>>], [key |-> "ca", urls |-> <<UrlX>>] >>
ConfigClash == << [key |-> "us", urls |-> <<UrlX, UrlXPlain>>], [key |-> "ca", urls |-> <<>>] >>
Configs == {ConfigTwo, ConfigClash}

\* The numbers of seconds by which the local clock may be set back when the zone
\* lowers its offset (the end of daylight saving time), on the scale of the
\* model, where an audit takes one second: 0 is no change; 3 brings the clock
\* back to the start of an invocation that audited three pairs, before the
\* start of a shorter one, or to the start of the one before it.
SetBacks == {0, 3}

\* What the file system does to one call of getPreviousResult: nothing, or the
\* failure of one of its three kinds of request.
Faults == {"none", "readdir", "stat", "readFile"}

\* process.argv.slice(2)
ArgLists == { <<>>,
              << <<"--", "de">> >>,
              << <<"de">>, <<"--", "ca">> >> }

VARIABLES
  urlsJson,             \* content of urls.json
  files,                \* results/<country>/<timestamp>/<device>/<file> -> content
  mtime,                \* results/<country>/<timestamp> -> modification time
  devDirs,              \* the device directories that exist
  mclock,               \* the time of the file system, one tick per change
  summaries,            \* results/summary/summary-<timestamp>.html -> document
  clock,                \* the wall clock, in seconds
  zoneOffset,           \* offset of local time from the wall clock, in seconds
  pc,                   \* position of the process in main
  argv,                 \* process.argv.slice(2) of the current invocation
  runs, audits,         \* invocations started, reports saved
  countries, timestamp, \* locals of main
  ci, ui, di,           \* positions of the three loops of main
  result, currentFilePath, previousResultData,
  allScoreDifferences,
  exitCode, error, stderr, stdout,
  prevRun,              \* history: the invocation before the current one
  lastRead,             \* history: what the last fs.readFile of a baseline gave
  lastList,             \* history: what the last listing of a region directory gave
  hadBaseline,          \* history: this invocation got a baseline for some pair
  summariesBefore,      \* history: the summary files when this invocation started
  pastTimestamps,       \* history: the timestamps of the earlier invocations
  tsReused,             \* history: some invocation took the timestamp of an earlier one
  tsFresh,              \* history: no earlier invocation had the timestamp of this one
  tsOrdered,            \* history: every invocation took a later timestamp than the one before
  rewrote               \* history: some saveResult wrote over an existing report

vars == << urlsJson, files, mtime, devDirs, mclock, summaries, clock, zoneOffset, pc, argv,
           runs, audits, countries, timestamp, ci, ui, di, result, currentFilePath,
           previousResultData, allScoreDifferences, exitCode, error, stderr,
           stdout, prevRun, lastRead, lastList, hadBaseline, summariesBefore,
           pastTimestamps, tsReused, tsFresh, tsOrdered, rewrote >>

\* ------------------------------------------------------------ pure helpers
Devices == <<"mobile", "desktop">>

RECURSIVE Join(_)
Join(tokens) == IF tokens = <<>> THEN "" ELSE Head(tokens) \o Join(Tail(tokens))

\* String.prototype.replace with a pattern that is not global: the first match
\* only, wherever it is.
RECURSIVE ReplaceFirst(_, _, _)
ReplaceFirst(tokens, matches, by) ==
  IF tokens = <<>> THEN <<>>
  ELSE IF Head(tokens) \in matches THEN by \o Tail(tokens)
  ELSE <<Head(tokens)>> \o ReplaceFirst(Tail(tokens), matches, by)

\* String.prototype.replace with a global pattern: every match.
ReplaceAll(tokens, match, by) ==
  [k \in 1..Len(tokens) |-> IF tokens[k] = match THEN by ELSE tokens[k]]

\* url.replace(/https?:\/\//, '').replace(/\//g, '_')
FileNameBase(url) ==
  Join(ReplaceAll(ReplaceFirst(url, {"http://", "https://"}, <<>>), "/", "_"))

\* arg.replace('--', '')
CountryOfArg(arg) == Join(ReplaceFirst(arg, {"--"}, <<>>))

ObjectKeys(obj) == [k \in 1..Len(obj) |-> obj[k].key]
HasOwnProperty(obj, key) == \E k \in 1..Len(obj) : obj[k].key = key
Get(obj, key) == obj[CHOOSE k \in 1..Len(obj) : obj[k].key = key]

\* obj[key] = value: a new key goes last, an existing key keeps its place.
SetKey(obj, key, value) ==
  IF \E k \in 1..Len(obj) : obj[k].key = key
  THEN [k \in 1..Len(obj) |-> IF obj[k].key = key THEN [obj[k] EXCEPT !.items = value] ELSE obj[k]]
  ELSE Append(obj, [key |-> key, items |-> value])

\* getLocalDateTime: the fields of the local time, to the second. The text
\* YYYY-MM-DD_HH-MM-SS is kept as the number of the local second, of which it
\* is an injective image; the local second is the wall clock plus the offset
\* of the zone, so it repeats or goes back when the offset is lowered.
GetLocalDateTime(now, offset) == now + offset

JSONstringify(lhr) == [json |-> lhr]
JSONparse(data) == data.json

\* Number.prototype.toFixed(2) of a whole number.
ToFixed2(x) == IF x < 0 THEN "-" \o ToString(-x) \o ".00" ELSE ToString(x) \o ".00"

ToUpperCase(device) == IF device = "mobile" THEN "MOBILE" ELSE "DESKTOP"

JsonPath(country, ts, device, url) ==
  [country |-> country, timestamp |-> ts, device |-> device,
   file |-> FileNameBase(url) \o ".json"]
HtmlPath(country, ts, device, url) ==
  [country |-> country, timestamp |-> ts, device |-> device,
   file |-> FileNameBase(url) \o ".html"]

NullData == [null |-> TRUE, data |-> [json |-> <<>>]]
NoPath == [country |-> "", timestamp |-> 0, device |-> "", file |-> ""]
NoError == [at |-> "", code |-> ""]
NoRead == [path |-> NoPath, code |-> ""]
NoList == [syscall |-> "", code |-> ""]
NoRun == [timestamp |-> 0, exitCode |-> 0, audited |-> {}, started |-> FALSE, fresh |-> TRUE]

\* --------------------------------------------------------- the score differ
HasCategory(lhr, id) == \E k \in 1..Len(lhr) : lhr[k].id = id
Category(lhr, id) == lhr[CHOOSE k \in 1..Len(lhr) : lhr[k].id = id]

\* (score || 0) * 100: null and 0 are both falsy. A score s is held as the
\* number of hundredths, so the product is s itself.
ScoreTimes100(score) == IF score = NullScore \/ score = 0 THEN 0 ELSE score

\* A row whose difference is taken the wrong way round.
ScoreDifferenceSwapped(previousCategory, currentCategory) ==
  LET previousScore == ScoreTimes100(previousCategory.score)
      currentScore == ScoreTimes100(currentCategory.score)
      difference == previousScore - currentScore
  IN [Category |-> currentCategory.title,
      PreviousScore |-> ToFixed2(previousScore),
      CurrentScore |-> ToFixed2(currentScore),
      Difference |-> ToFixed2(difference)]

\* One row of the table: currentResult.categories[categoryId] against
\* previousResult.categories[categoryId].
ScoreDifference(previousCategory, currentCategory) ==
  LET previousScore == ScoreTimes100(previousCategory.score)
      currentScore == ScoreTimes100(currentCategory.score)
      difference == currentScore - previousScore
  IN [Category |-> currentCategory.title,
      PreviousScore |-> ToFixed2(previousScore),
      CurrentScore |-> ToFixed2(currentScore),
      Difference |-> ToFixed2(difference)]

\* previousResult.categories[categoryId].score reads a property of undefined
\* when the previous report has no such category: a TypeError.
calculateScoreDifferences(previousResult, currentResult) ==
  IF \E k \in 1..Len(currentResult) : ~HasCategory(previousResult, currentResult[k].id)
  THEN [threw |-> TRUE, rows |-> <<>>]
  ELSE [threw |-> FALSE,
        rows |-> [k \in 1..Len(currentResult) |->
                    ScoreDifference(Category(previousResult, currentResult[k].id),
                                    currentResult[k])]]

\* ----------------------------------------------------- the snapshot selector
\* fs.readdir(countryDir) filtered to directories: the snapshots of the region.
\* A region directory holds nothing but snapshot directories.
Readdir(country) == {s \in DOMAIN mtime : s.country = country}

\* The comparator with its operands exchanged: oldest first.
RECURSIVE SortByMtimeAsc(_)
SortByMtimeAsc(S) ==
  IF S = {} THEN <<>>
  ELSE LET oldest == CHOOSE s \in S : \A t \in S : mtime[s] <= mtime[t]
       IN <<oldest>> \o SortByMtimeAsc(S \ {oldest})

\* stats.sort((a, b) => b.mtime - a.mtime)
RECURSIVE SortByMtimeDesc(_)
SortByMtimeDesc(S) ==
  IF S = {} THEN <<>>
  ELSE LET newest == CHOOSE s \in S : \A t \in S : mtime[t] <= mtime[s]
       IN <<newest>> \o SortByMtimeDesc(S \ {newest})

\* stats[1] ? stats[1].path : null  (the second entry; sequences start at 1)
\* A selector that takes the first entry of the order instead of the second.
NewestTimestampDir(stats) == IF Len(stats) >= 1 THEN <<stats[1]>> ELSE <<>>

\* An empty sequence stands for null.
PreviousTimestampDir(stats) == IF Len(stats) >= 2 THEN <<stats[2]>> ELSE <<>>

\* fs.readFile: with `fault` set the file or a directory on its path cannot be
\* accessed and the read fails with EACCES, whether the file exists or not;
\* otherwise ENOENT when there is no such file, and the content when there is.
ReadFile(path, fault) ==
  IF fault THEN [threw |-> TRUE, code |-> "EACCES", data |-> NullData]
  ELSE IF path \notin DOMAIN files THEN [threw |-> TRUE, code |-> "ENOENT", data |-> NullData]
  ELSE [threw |-> FALSE, code |-> "", data |-> [null |-> FALSE, data |-> files[path]]]

\* A catch block that rethrows everything, and one that swallows everything.
RethrownAlways(code) == TRUE
RethrownNever(code) == FALSE

\* if (error.code !== 'ENOENT') throw error
Rethrown(code) == code # "ENOENT"

\* fs.readdir(countryDir, {withFileTypes: true}): ENOENT when there is no such
\* directory (a region directory exists once a snapshot has been stored in it),
\* EACCES with `fault` set (the directory may not be listed).
ReaddirFails(country, fault) ==
  IF Readdir(country) = {} THEN [threw |-> TRUE, syscall |-> "scandir", code |-> "ENOENT"]
  ELSE IF fault THEN [threw |-> TRUE, syscall |-> "scandir", code |-> "EACCES"]
  ELSE [threw |-> FALSE, syscall |-> "", code |-> ""]

\* Promise.all of fs.stat over the snapshot directories: rejects when one does.
StatFails(dirs, fault) ==
  IF fault /\ dirs # {} THEN [threw |-> TRUE, syscall |-> "stat", code |-> "EACCES"]
  ELSE [threw |-> FALSE, syscall |-> "", code |-> ""]

\* The region directory is derived from the path of the current report; the
\* country parameter is not used. The listing and the stats are outside the
\* try: their failure leaves the function as an exception, whatever the number
\* of snapshots. `list` is what they gave, `read` what fs.readFile gave, if
\* called.
getPreviousResult(pageUrl, filePath, deviceName, fault) ==
  LET folders == ReaddirFails(filePath.country, fault = "readdir")
      statted == StatFails(Readdir(filePath.country), fault = "stat")
      stats == SortByMtimeDesc(Readdir(filePath.country))
      previousTimestampDir == PreviousTimestampDir(stats)
  IN IF folders.threw
     THEN [threw |-> TRUE, code |-> folders.code, data |-> NullData, read |-> NoRead,
           list |-> [syscall |-> folders.syscall, code |-> folders.code]]
     ELSE IF statted.threw
     THEN [threw |-> TRUE, code |-> statted.code, data |-> NullData, read |-> NoRead,
           list |-> [syscall |-> statted.syscall, code |-> statted.code]]
     ELSE IF previousTimestampDir = <<>>
     THEN [threw |-> FALSE, code |-> "", data |-> NullData, read |-> NoRead, list |-> NoList]
     ELSE LET dir == previousTimestampDir[1]
              previousFilePath == JsonPath(dir.country, dir.timestamp, deviceName, pageUrl)
              got == ReadFile(previousFilePath, fault = "readFile")
              read == [path |-> previousFilePath, code |-> got.code]
          IN IF ~got.threw
             THEN [threw |-> FALSE, code |-> "", data |-> got.data, read |-> read, list |-> NoList]
             ELSE IF Rethrown(got.code)
             THEN [threw |-> TRUE, code |-> got.code, data |-> NullData, read |-> read, list |-> NoList]
             ELSE [threw |-> FALSE, code |-> "", data |-> NullData, read |-> read, list |-> NoList]

\* --------------------------------------------------------- the summary
\* generateHTMLTable: the heading and one row per score difference.
generateHTMLTable(urlScoreDifferences, device) ==
  [heading |-> [device |-> ToUpperCase(device), url |-> urlScoreDifferences.url],
   rows |-> urlScoreDifferences.scoreDifferences]

\* A test of the keys of allScoreDifferences instead of its lists.
HasCountries(all) == Len(all) > 0

HasDifferences(all) == \E k \in 1..Len(all) : Len(all[k].items) > 0

RECURSIVE Sections(_)
Sections(all) ==
  IF all = <<>> THEN <<>>
  ELSE (IF Len(Head(all).items) > 0
        THEN << [country |-> Head(all).key,
                 tables |-> [k \in 1..Len(Head(all).items) |->
                               generateHTMLTable(Head(all).items[k], Head(all).items[k].device)]] >>
        ELSE <<>>) \o Sections(Tail(all))

FinalHtml(all) == [title |-> "Lighthouse Score Differences", sections |-> Sections(all)]

SummaryFilePath(ts) == [dir |-> "results/summary", timestamp |-> ts]

\* ------------------------------------------------------------ orchestrator
\* An orchestrator that ignores the arguments.
CountriesAll(args, urlsObject) == ObjectKeys(urlsObject)

\* countriesToRun.length ? countriesToRun : Object.keys(urlsObject)
Countries(args, urlsObject) ==
  LET countriesToRun == [k \in 1..Len(args) |-> CountryOfArg(args[k])]
  IN IF Len(countriesToRun) > 0 THEN countriesToRun ELSE ObjectKeys(urlsObject)

country == countries[ci]
urls == Get(urlsJson, country).urls
url == urls[ui]
device == Devices[di]

\* ------------------------------------------------------------------ state
Init ==
  /\ urlsJson \in Configs
  /\ files = [p \in {} |-> NullData]
  /\ mtime = [s \in {} |-> 0]
  /\ devDirs = {}
  /\ mclock = 0
  /\ summaries = [p \in {} |-> FinalHtml(<<>>)]
  /\ clock = 0
  /\ zoneOffset = 0
  /\ pc = "idle"
  /\ runs = 0
  /\ audits = 0
  /\ countries = <<>>
  /\ timestamp = 0
  /\ ci = 1 /\ ui = 1 /\ di = 1
  /\ result = <<>>
  /\ currentFilePath = NoPath
  /\ previousResultData = NullData
  /\ allScoreDifferences = <<>>
  /\ exitCode = 0
  /\ error = NoError
  /\ stderr = <<>>
  /\ stdout = [msg |-> "", path |-> SummaryFilePath(0)]
  /\ argv = <<>>
  /\ prevRun = NoRun
  /\ lastRead = NoRead
  /\ lastList = NoList
  /\ hadBaseline = FALSE
  /\ summariesBefore = summaries
  /\ pastTimestamps = {}
  /\ tsReused = FALSE
  /\ tsFresh = TRUE
  /\ tsOrdered = TRUE
  /\ rewrote = FALSE

fsVars == << files, mtime, devDirs, mclock >>
histVars == << prevRun, lastRead, lastList, hadBaseline, summariesBefore, pastTimestamps,
              tsReused, tsFresh, tsOrdered, rewrote >>
loopVars == << ci, ui, di >>

\* The zone of the machine lowers its offset by `shift` seconds, once. The
\* program sees the local time only where it calls getLocalDateTime, so the
\* change is taken at the first call that follows it.
ZoneSetBack(shift) ==
  /\ shift # 0 => zoneOffset = 0
  /\ zoneOffset' = zoneOffset - shift

\* main, lines 125-132: a new process reads urls.json and its arguments and
\* takes the timestamp of the invocation.
Start(args, shift) ==
  /\ pc \in {"idle", "done"}
  /\ runs < MaxRuns
  /\ ZoneSetBack(shift)
  /\ runs' = runs + 1
  /\ argv' = args
  /\ lastRead' = NoRead
  /\ lastList' = NoList
  /\ hadBaseline' = FALSE
  /\ summariesBefore' = summaries
  /\ countries' = Countries(args, urlsJson)
  /\ timestamp' = GetLocalDateTime(clock, zoneOffset')
  /\ allScoreDifferences' = <<>>
  /\ ci' = 1 /\ ui' = 1 /\ di' = 1
  /\ result' = <<>>
  /\ currentFilePath' = NoPath
  /\ previousResultData' = NullData
  /\ exitCode' = 0
  /\ error' = NoError
  /\ stderr' = <<>>
  /\ stdout' = [msg |-> "", path |-> SummaryFilePath(0)]
  /\ pc' = "loop"
  /\ prevRun' = [timestamp |-> timestamp, exitCode |-> exitCode,
                 audited |-> {allScoreDifferences[k].key : k \in 1..Len(allScoreDifferences)},
                 started |-> runs > 0, fresh |-> tsFresh]
  /\ pastTimestamps' = pastTimestamps \cup {timestamp'}
  /\ tsReused' = (tsReused \/ timestamp' \in pastTimestamps)
  /\ tsFresh' = (timestamp' \notin pastTimestamps)
  /\ tsOrdered' = (tsOrdered /\ (runs > 0 => timestamp' > timestamp))
  /\ UNCHANGED << urlsJson, fsVars, summaries, clock, audits, rewrote >>

\* main, lines 135-138: a country that urls.json does not configure.
SkipCountry ==
  /\ pc = "loop"
  /\ ci <= Len(countries)
  /\ ~HasOwnProperty(urlsJson, country)
  /\ stderr' = Append(stderr, [msg |-> "No URLs configured for country", country |-> country])
  /\ ci' = ci + 1
  /\ UNCHANGED << urlsJson, fsVars, summaries, clock, zoneOffset, pc, argv, runs, audits, countries,
                  timestamp, ui, di, result, currentFilePath, previousResultData,
                  allScoreDifferences, exitCode, error, stdout, histVars >>

\* main, lines 140-143: a configured country gets an empty list of differences
\* and the loop over its URLs begins (and ends at once when it has none).
EnterCountry ==
  /\ pc = "loop"
  /\ ci <= Len(countries)
  /\ HasOwnProperty(urlsJson, country)
  /\ allScoreDifferences' = SetKey(allScoreDifferences, country, <<>>)
  /\ IF Len(urls) = 0
     THEN ci' = ci + 1 /\ pc' = "loop"
     ELSE ci' = ci /\ pc' = "audit"
  /\ ui' = 1 /\ di' = 1
  /\ UNCHANGED << urlsJson, fsVars, summaries, clock, zoneOffset, argv, runs, audits, countries,
                  timestamp, result, currentFilePath, previousResultData,
                  exitCode, error, stderr, stdout, histVars >>

\* main().catch: the error is printed and the process exits with status 1.
Abort(at, code) ==
  /\ pc' = "done"
  /\ exitCode' = 1
  /\ error' = [at |-> at, code |-> code]

\* fs.mkdir(dir, {recursive: true}): a directory that is created changes the
\* modification time of its parent, so the snapshot directory takes the time
\* at which its device directory is created; an existing directory is left alone.
MkdirMtime(snapshot, deviceDir) ==
  IF deviceDir \in devDirs THEN mtime
  ELSE [s \in DOMAIN mtime \cup {snapshot} |-> IF s = snapshot THEN mclock + 1 ELSE mtime[s]]

\* fs.writeFile of the report and of its rendering.
WriteReport(jsonFilePath, htmlFilePath, runnerResult) ==
  [p \in DOMAIN files \cup {jsonFilePath, htmlFilePath} |->
     IF p = jsonFilePath THEN JSONstringify(runnerResult)
     ELSE IF p = htmlFilePath THEN [html |-> runnerResult]
     ELSE files[p]]

\* main, lines 146-147: runLighthouse returns a report and saveResult stores
\* it. An audit launches a browser and loads the page: the wall clock is in a
\* later second when it returns.
RunAndSave(lhr) ==
  /\ pc = "audit"
  /\ audits < MaxAudits
  /\ clock' = clock + 1
  /\ audits' = audits + 1
  /\ result' = lhr
  /\ LET snapshot == [country |-> country, timestamp |-> timestamp]
         deviceDir == [country |-> country, timestamp |-> timestamp, device |-> device]
         jsonFilePath == JsonPath(country, timestamp, device, url)
         htmlFilePath == HtmlPath(country, timestamp, device, url)
     IN /\ mtime' = MkdirMtime(snapshot, deviceDir)
        /\ mclock' = IF deviceDir \in devDirs THEN mclock ELSE mclock + 1
        /\ devDirs' = devDirs \cup {deviceDir}
        /\ files' = WriteReport(jsonFilePath, htmlFilePath, lhr)
        /\ rewrote' = (rewrote \/ jsonFilePath \in DOMAIN files)
        /\ currentFilePath' = jsonFilePath
  /\ pc' = "compare"
  /\ UNCHANGED << urlsJson, summaries, zoneOffset, argv, runs, countries, timestamp, loopVars,
                  previousResultData, allScoreDifferences, exitCode, error,
                  stderr, stdout, prevRun, lastRead, lastList, hadBaseline, summariesBefore,
                  pastTimestamps, tsReused, tsFresh, tsOrdered >>

\* main, line 146: the audit engine or the browser fails; nothing is caught.
AuditFails ==
  /\ pc = "audit"
  /\ Abort("runLighthouse", "AuditEngineError")
  /\ UNCHANGED << urlsJson, fsVars, summaries, clock, zoneOffset, argv, runs, audits, countries,
                  timestamp, loopVars, result, currentFilePath, previousResultData,
                  allScoreDifferences, stderr, stdout, histVars >>

\* main, line 149: the baseline of the report just saved.
GetPrevious(fault) ==
  /\ pc = "compare"
  /\ LET got == getPreviousResult(url, currentFilePath, device, fault)
     IN /\ lastRead' = got.read
        /\ lastList' = got.list
        /\ hadBaseline' = (hadBaseline \/ (~got.threw /\ ~got.data.null))
        /\ IF got.threw
           THEN Abort("getPreviousResult", got.code) /\ UNCHANGED previousResultData
           ELSE /\ previousResultData' = got.data
                /\ pc' = "diff"
                /\ UNCHANGED << exitCode, error >>
  /\ UNCHANGED << urlsJson, fsVars, summaries, clock, zoneOffset, argv, runs, audits, countries,
                  timestamp, loopVars, result, currentFilePath,
                  allScoreDifferences, stderr, stdout, prevRun, summariesBefore,
                  pastTimestamps, tsReused, tsFresh, tsOrdered, rewrote >>

\* The end of the body of the device loop: the next device, URL or country.
Advance ==
  IF di < Len(Devices) THEN di' = di + 1 /\ ui' = ui /\ ci' = ci /\ pc' = "audit"
  ELSE IF ui < Len(urls) THEN di' = 1 /\ ui' = ui + 1 /\ ci' = ci /\ pc' = "audit"
  ELSE di' = 1 /\ ui' = 1 /\ ci' = ci + 1 /\ pc' = "loop"

\* main, lines 150-158: with a baseline, the differences are computed and kept.
Diff ==
  /\ pc = "diff"
  /\ IF previousResultData.null
     THEN Advance /\ UNCHANGED << allScoreDifferences, exitCode, error >>
     ELSE LET previousResult == JSONparse(previousResultData.data)
              scoreDifferences == calculateScoreDifferences(previousResult, result)
          IN IF scoreDifferences.threw
             THEN Abort("calculateScoreDifferences", "TypeError")
                  /\ UNCHANGED << allScoreDifferences, loopVars >>
             ELSE /\ allScoreDifferences' =
                       SetKey(allScoreDifferences, country,
                              Append(Get(allScoreDifferences, country).items,
                                     [url |-> url, device |-> device,
                                      scoreDifferences |-> scoreDifferences.rows]))
                  /\ Advance
                  /\ UNCHANGED << exitCode, error >>
  /\ UNCHANGED << urlsJson, fsVars, summaries, clock, zoneOffset, argv, runs, audits, countries,
                  timestamp, result, currentFilePath, previousResultData,
                  stderr, stdout, histVars >>

\* main, lines 176-198: some country has differences; the summary is written
\* under the time at which it is written.
WriteSummary(shift) ==
  /\ pc = "loop"
  /\ ci > Len(countries)
  /\ HasDifferences(allScoreDifferences)
  /\ ZoneSetBack(shift)
  /\ LET summaryFilePath == SummaryFilePath(GetLocalDateTime(clock, zoneOffset'))
     IN /\ summaries' = [p \in DOMAIN summaries \cup {summaryFilePath} |->
                           IF p = summaryFilePath THEN FinalHtml(allScoreDifferences)
                           ELSE summaries[p]]
        /\ stdout' = [msg |-> "Summary HTML has been saved to", path |-> summaryFilePath]
  /\ pc' = "done"
  /\ UNCHANGED << urlsJson, fsVars, clock, argv, runs, audits, countries, timestamp,
                  loopVars, result, currentFilePath, previousResultData,
                  allScoreDifferences, exitCode, error, stderr, histVars >>

\* main, lines 199-201: no country has differences.
NoDifferences ==
  /\ pc = "loop"
  /\ ci > Len(countries)
  /\ ~HasDifferences(allScoreDifferences)
  /\ stdout' = [msg |-> "No score differences to report.", path |-> SummaryFilePath(0)]
  /\ pc' = "done"
  /\ UNCHANGED << urlsJson, fsVars, summaries, clock, zoneOffset, argv, runs, audits, countries,
                  timestamp, loopVars, result, currentFilePath, previousResultData,
                  allScoreDifferences, exitCode, error, stderr, histVars >>

Next ==
  \/ \E args \in ArgLists, shift \in SetBacks : Start(args, shift)
  \/ SkipCountry
  \/ EnterCountry
  \/ \E lhr \in Lhrs : RunAndSave(lhr)
  \/ AuditFails
  \/ \E fault \in Faults : GetPrevious(fault)
  \/ Diff
  \/ \E shift \in SetBacks : WriteSummary(shift)
  \/ NoDifferences

Spec == Init /\ [][Next]_vars

\* ----------------------------------------------------------- properties
\* The call of getPreviousResult for the pair (url, device) returned, and
\* previousResultData holds what it returned.
SelectorReturned == pc = "diff"
\* The process has just run getPreviousResult for the pair (url, device): the
\* call returned, or raised the error that ended the invocation.
AfterSelector == SelectorReturned \/ (pc = "done" /\ error.at = "getPreviousResult")

Snapshots(c) == {s \in DOMAIN mtime : s.country = c}
NewerThan(s) == {t \in Snapshots(s.country) : mtime[t] > mtime[s]}
Newest(c) == {s \in Snapshots(c) : NewerThan(s) = {}}
SecondNewest(c) == {s \in Snapshots(c) : Cardinality(NewerThan(s)) = 1}
\* The report of snapshot s for the device and URL of the current report.
ReportIn(s) ==
  [country |-> s.country, timestamp |-> s.timestamp,
   device |-> currentFilePath.device, file |-> currentFilePath.file]

Configured == {urlsJson[k].key : k \in 1..Len(urlsJson)}
NamedByArgs == {argv[k][Len(argv[k])] : k \in 1..Len(argv)}
RegionsToAudit == IF argv = <<>> THEN Configured ELSE Configured \cap NamedByArgs
Audited == {allScoreDifferences[k].key : k \in 1..Len(allScoreDifferences)}
Completed == pc = "done" /\ exitCode = 0 /\ runs > 0
\* main returned: the invocation ended and no error reached main().catch.
Returned == pc = "done" /\ runs > 0 /\ error = NoError
SummaryWritten ==
  stdout.msg = "Summary HTML has been saved to" /\ stdout.path \in DOMAIN summaries

\* C1 (as claimed): getPreviousResult returns null, and raises nothing,
\* whenever the region directory of the current report holds fewer than two
\* snapshots, whatever the url and device.
C1_AbsentBelowTwoSnapshots ==
  (AfterSelector /\ Cardinality(Snapshots(currentFilePath.country)) < 2)
    => (SelectorReturned /\ previousResultData.null)

\* C1 (amended): getPreviousResult returns null, and raises nothing, whenever
\* the region directory of the current report holds fewer than two snapshots
\* and the listing of the directory and the stats of its entries succeed,
\* whatever the url and device; no report is read.
C1_AbsentBelowTwoSnapshotsListed ==
  (AfterSelector /\ Cardinality(Snapshots(currentFilePath.country)) < 2 /\ lastList = NoList)
    => (SelectorReturned /\ previousResultData.null /\ lastRead = NoRead)

C1_Witness ==
  /\ SelectorReturned
  /\ lastList = NoList
  /\ Cardinality(Snapshots(currentFilePath.country)) = 1
  /\ previousResultData.null
  /\ runs = 2

\* C2 (as claimed): when the second-newest snapshot of the region has no report
\* for the (device, url), getPreviousResult returns null and raises nothing,
\* whatever older snapshots hold, and the invocation goes on.
C2_AbsentWhenSecondNewestLacksReport ==
  \A s \in SecondNewest(currentFilePath.country) :
    (AfterSelector /\ ReportIn(s) \notin DOMAIN files)
      => (SelectorReturned /\ previousResultData.null /\ error = NoError)

\* C2 (amended): when the second-newest snapshot of the region has no report
\* for the (device, url), the region directory is listed and its entries are
\* statted without error and the read of the report fails with ENOENT,
\* getPreviousResult returns null and raises nothing, whatever older snapshots
\* hold, and the invocation goes on; a read that fails otherwise is C3's case.
C2_AbsentWhenReadFindsNoReport ==
  \A s \in SecondNewest(currentFilePath.country) :
    (AfterSelector /\ ReportIn(s) \notin DOMAIN files
       /\ lastList = NoList
       /\ lastRead = [path |-> ReportIn(s), code |-> "ENOENT"])
      => (SelectorReturned /\ previousResultData.null /\ error = NoError)

C2_Witness ==
  /\ SelectorReturned
  /\ previousResultData.null
  /\ error = NoError
  /\ lastRead.code = "ENOENT"
  /\ \E s \in SecondNewest(currentFilePath.country) : ReportIn(s) \notin DOMAIN files
  /\ \E t \in Snapshots(currentFilePath.country) :
       Cardinality(NewerThan(t)) >= 2 /\ ReportIn(t) \in DOMAIN files

\* C3: a read of the previous report that fails with anything but ENOENT ends
\* the invocation: exit status 1, the error reported, no summary written and
\* no further pair audited.
C3_OtherReadErrorIsFatal ==
  lastRead.code \notin {"", "ENOENT"}
    => /\ pc = "done"
       /\ exitCode = 1
       /\ error = [at |-> "getPreviousResult", code |-> lastRead.code]
       /\ stdout.msg = ""
       /\ summaries = summariesBefore
       /\ currentFilePath = JsonPath(country, timestamp, device, url)

C3_Witness ==
  /\ lastRead.code = "EACCES"
  /\ pc = "done"
  /\ exitCode = 1
  /\ hadBaseline
  /\ di = 1

\* C4: an invocation that no error ends writes a summary exactly when some
\* audited pair had a baseline; with none it reports that there is nothing to
\* compare and creates no summary file; in both cases the exit status is 0.
C4_SummaryIffBaseline ==
  Returned =>
    /\ exitCode = 0
    /\ SummaryWritten <=> hadBaseline
    /\ ~hadBaseline => /\ stdout.msg = "No score differences to report."
                       /\ summaries = summariesBefore

C4_Witness ==
  /\ Returned
  /\ ~hadBaseline
  /\ currentFilePath # NoPath
  /\ stdout.msg = "No score differences to report."
  /\ summaries = summariesBefore
  /\ exitCode = 0

\* C5 (as claimed): the summary is stored under the timestamp under which the
\* invocation stored its reports.
C5_SummaryKeyedByRunTimestamp ==
  (pc = "done" /\ SummaryWritten) => stdout.path.timestamp = timestamp

\* C6: the regions audited are the configured regions the arguments name, or
\* all configured regions without arguments; an unknown name is logged and
\* skipped, and no report is written for any other region.
C6_AuditedRegions ==
  runs > 0 =>
    /\ Audited \subseteq RegionsToAudit
    /\ currentFilePath # NoPath => currentFilePath.country \in RegionsToAudit
    /\ Completed =>
         /\ Audited = RegionsToAudit
         /\ \A c \in NamedByArgs \ Configured :
              \E k \in 1..Len(stderr) : stderr[k].country = c

C6_Witness ==
  /\ Completed
  /\ NamedByArgs \ Configured # {}
  /\ Audited # {}
  /\ Audited # Configured
  /\ currentFilePath # NoPath

\* C7 (as claimed): calculateScoreDifferences does not fail when the previous
\* report lacks a category of the current one; it yields one row per category
\* of the current report, in its order, the missing previous score being 0.
C7_DiffNeverFails ==
  (SelectorReturned /\ ~previousResultData.null) =>
    LET previous == JSONparse(previousResultData.data)
        got == calculateScoreDifferences(previous, result)
    IN /\ ~got.threw
       /\ error.at # "calculateScoreDifferences"
       /\ Len(got.rows) = Len(result)
       /\ \A k \in 1..Len(result) :
            /\ got.rows[k].Category = result[k].title
            /\ ~HasCategory(previous, result[k].id) => got.rows[k].PreviousScore = "0.00"

\* C8 (as claimed): after two successive completed invocations with distinct
\* timestamps that both audited a region of one URL, the summary of the second
\* holds for that URL one table per device, and every difference in it is the
\* current score minus the score the first invocation recorded, in points of
\* 0-100.
Points(score) == IF score = NullScore THEN 0 ELSE score
OneUrlRegions == {c \in Configured : Len(Get(urlsJson, c).urls) = 1}
TwoRunsCompleted ==
  Completed /\ prevRun.started /\ prevRun.exitCode = 0 /\ prevRun.timestamp # timestamp
TableMatches(table, c, u, d) ==
  LET current == files[JsonPath(c, timestamp, d, u)].json
      recorded == files[JsonPath(c, prevRun.timestamp, d, u)].json
  IN /\ table.heading = [device |-> ToUpperCase(d), url |-> u]
     /\ Len(table.rows) = Len(current)
     /\ \A r \in 1..Len(current) :
          table.rows[r].Difference =
            ToFixed2(Points(current[r].score) - Points(Category(recorded, current[r].id).score))
SummaryCompares(c) ==
  /\ SummaryWritten
  /\ LET sections == summaries[stdout.path].sections
         mine == {k \in 1..Len(sections) : sections[k].country = c}
     IN /\ Cardinality(mine) = 1
        /\ \A k \in mine :
             /\ Len(sections[k].tables) = Len(Devices)
             /\ \A d \in 1..Len(Devices) :
                  TableMatches(sections[k].tables[d], c, Get(urlsJson, c).urls[1], Devices[d])

C8_SecondRunSummaryOfDistinctPair ==
  TwoRunsCompleted =>
    \A c \in (OneUrlRegions \cap Audited) \cap prevRun.audited : SummaryCompares(c)

\* C8 (amended): the same, for two successive completed invocations whose
\* timestamps differ from each other and from that of every earlier invocation.
C8_SecondRunSummary ==
  (TwoRunsCompleted /\ tsFresh /\ prevRun.fresh) =>
    \A c \in (OneUrlRegions \cap Audited) \cap prevRun.audited : SummaryCompares(c)

C8_Witness ==
  /\ TwoRunsCompleted /\ tsFresh /\ prevRun.fresh
  /\ SummaryWritten
  /\ \E c \in (OneUrlRegions \cap Audited) \cap prevRun.audited :
       \E k \in 1..Len(summaries[stdout.path].sections) :
         /\ summaries[stdout.path].sections[k].country = c
         /\ summaries[stdout.path].sections[k].tables[1].rows[1].Difference = "5.00"

\* C9: with invocations one after another under strictly increasing
\* timestamps, at every call of getPreviousResult the newest snapshot of the
\* region is that of the current invocation, and the snapshot selected is that
\* of the latest earlier invocation that stored a report for the region, never
\* the current one; a baseline returned is the report of that snapshot.
EarlierTimestamps(c) == {s.timestamp : s \in {t \in Snapshots(c) : t.timestamp < timestamp}}
LatestEarlier(c) == CHOOSE m \in EarlierTimestamps(c) : \A t \in EarlierTimestamps(c) : t <= m

C9_BaselineIsLatestEarlierRun ==
  (tsOrdered /\ (pc = "compare" \/ AfterSelector)) =>
    LET c == currentFilePath.country
        selected == PreviousTimestampDir(SortByMtimeDesc(Readdir(c)))
    IN /\ Newest(c) = {[country |-> c, timestamp |-> timestamp]}
       /\ (EarlierTimestamps(c) # {}) <=> (selected # <<>>)
       /\ \A k \in 1..Len(selected) : selected[k].timestamp = LatestEarlier(c)
       /\ (SelectorReturned /\ ~previousResultData.null) =>
            /\ EarlierTimestamps(c) # {}
            /\ previousResultData.data =
                 files[[country |-> c, timestamp |-> LatestEarlier(c),
                        device |-> currentFilePath.device, file |-> currentFilePath.file]]

C9_Witness ==
  /\ tsOrdered
  /\ SelectorReturned
  /\ ~previousResultData.null
  /\ Cardinality(Snapshots(currentFilePath.country)) >= 3
  /\ zoneOffset # 0

\* C10 (as claimed): with distinct timestamps, no saveResult writes over a
\* report that exists, whatever the regions, URL lists and arguments.
C10_ReportsWrittenOnce == ~tsReused => ~rewrote

====
